---- MODULE Spec2Model ----
(***************************************************************************)
(* pyboostcard/selections.py: the Selection variants (Identity, Interval,  *)
(* Override, Missing), their in_selection predicates, the sort key, the    *)
(* dict / json constructors and FittedSelection.transform.                 *)
(*                                                                         *)
(* Floats are encoded as integers.  NaN, +inf, -inf and Python's None are  *)
(* reserved codes; every comparison goes through the IEEE operators below, *)
(* which are false as soon as one operand is NaN.                          *)
(***************************************************************************)
EXTENDS Integers, Sequences, FiniteSets, TLC

VARIABLES
    pc,      \* position of the calling script
    inp,     \* the argument handed to the constructor / parser
    obj,     \* outcome of the last constructing call: Ok(value) or Raise(exception)
    x,       \* the input buffer (np.ndarray of floats)
    mask,    \* the boolean array returned by in_selection
    result,  \* the result buffer threaded through FittedSelection.transform
    fsel,    \* the FittedSelection last applied / inspected
    hist     \* history of the run (what the caller passed, what was seen before)

vars == <<pc, inp, obj, x, mask, result, fsel, hist>>

---------------------------------------------------------------------------
(* Bounds of the model *)

MaxLen == 2        \* longest buffer
MaxOrder == 1      \* largest caller-supplied order
MaxArr == 1        \* longest json array
MaxSort == 4       \* longest list handed to sorted()

---------------------------------------------------------------------------
(* Floats *)

NaN == -99
PosInf == 1000
NegInf == -1000
None == -98

Finite == {-1, 0, 1, 3, 5, 7, 10, 20}
Floats == Finite \cup {NaN, PosInf, NegInf}

isnan(v) == v = NaN
gt(a, b) == ~isnan(a) /\ ~isnan(b) /\ a > b
ge(a, b) == ~isnan(a) /\ ~isnan(b) /\ a >= b
lt(a, b) == ~isnan(a) /\ ~isnan(b) /\ a < b
le(a, b) == ~isnan(a) /\ ~isnan(b) /\ a <= b
eq(a, b) == ~isnan(a) /\ ~isnan(b) /\ a = b
ne(a, b) == ~eq(a, b)

Buffers(S) == UNION {[1..n -> S] : n \in 1..MaxLen}

Idle == <<>>
Ok(v) == [kind |-> "ok", val |-> v]
Raise(e) == [kind |-> "raise", exc |-> e]
NotCalled == [kind |-> "none"]

---------------------------------------------------------------------------
(* Selection and its variants *)

Selection_init(variant, priority, order) ==
    [variant |-> variant, priority |-> priority, order |-> order, value |-> NaN]

Identity(order) ==
    Ok([variant |-> "Identity", priority |-> 100, order |-> 0, value |-> None])

sorted2_unsorted(values) == values

sorted2(values) ==
    IF lt(values[2], values[1]) THEN <<values[2], values[1]>> ELSE values

mono_setter_unchecked(self, value) == Ok([mono |-> value] @@ self)

mono_setter(self, value) ==
    IF value \notin {-1, 0, 1}
    THEN Raise("ValueError")
    ELSE Ok([mono |-> value] @@ self)

Interval(values, bounds, order, mono) ==
    LET self == [values |-> sorted2(values), bounds |-> bounds]
                    @@ Selection_init("Interval", 0, order)
    IN  mono_setter(self, mono)

Override(override, order) ==
    Ok([override |-> override] @@ Selection_init("Override", 1, order))

Missing(order) ==
    Ok(Selection_init("Missing", 2, order))

testmap_swapped(bounds) ==
    CASE bounds = <<FALSE, FALSE>> -> <<"gt", "lt">>
      [] bounds = <<FALSE, TRUE>>  -> <<"ge", "lt">>
      [] bounds = <<TRUE, FALSE>>  -> <<"gt", "le">>
      [] bounds = <<TRUE, TRUE>>   -> <<"ge", "le">>

testmap(bounds) ==
    CASE bounds = <<FALSE, FALSE>> -> <<"gt", "lt">>
      [] bounds = <<FALSE, TRUE>>  -> <<"gt", "le">>
      [] bounds = <<TRUE, FALSE>>  -> <<"ge", "lt">>
      [] bounds = <<TRUE, TRUE>>   -> <<"ge", "le">>

compare(o, a, b) ==
    CASE o = "gt" -> gt(a, b)
      [] o = "ge" -> ge(a, b)
      [] o = "lt" -> lt(a, b)
      [] o = "le" -> le(a, b)

(* A boolean array is data plus a mask; a plain ndarray has nothing masked. *)
Plain(data) == [data |-> data, mask |-> [p \in DOMAIN data |-> FALSE]]

masked_invalid(a) ==
    [data |-> a, mask |-> [p \in DOMAIN a |-> a[p] \in {NaN, PosInf, NegInf}]]

masked_compare(o, z, c) ==
    [data |-> [p \in DOMAIN z.data |-> compare(o, z.data[p], c)], mask |-> z.mask]

array_and(a, b) ==
    [data |-> [p \in DOMAIN a.data |-> a.data[p] /\ b.data[p]],
     mask |-> [p \in DOMAIN a.data |-> a.mask[p] \/ b.mask[p]]]

np_isnan(a) == Plain([p \in DOMAIN a |-> isnan(a[p])])

Identity_in_selection(self, a) == Plain([p \in DOMAIN a |-> TRUE])

Interval_in_selection(self, a) ==
    LET z == masked_invalid(a)
        t == testmap(self.bounds)
    IN  array_and(masked_compare(t[1], z, self.values[1]),
                  masked_compare(t[2], z, self.values[2]))

Override_in_selection(self, a) ==
    Plain([p \in DOMAIN a |-> eq(a[p], self.override) /\ ~isnan(a[p])])

Missing_in_selection_eqnan(self, a) == Plain([p \in DOMAIN a |-> eq(a[p], NaN)])

Missing_in_selection(self, a) == np_isnan(a)

in_selection(self, a) ==
    CASE self.variant = "Identity" -> Identity_in_selection(self, a)
      [] self.variant = "Interval" -> Interval_in_selection(self, a)
      [] self.variant = "Override" -> Override_in_selection(self, a)
      [] self.variant = "Missing"  -> Missing_in_selection(self, a)

---------------------------------------------------------------------------
(* Selection.bounds_from_string, from_dict, from_json *)

bounds_from_string_default(chars) ==
    CASE chars = "(]" -> Ok(<<FALSE, TRUE>>)
      [] chars = "[)" -> Ok(<<TRUE, FALSE>>)
      [] chars = "()" -> Ok(<<FALSE, FALSE>>)
      [] OTHER        -> Ok(<<TRUE, TRUE>>)

bounds_from_string(chars) ==
    CASE chars = "[]" -> Ok(<<TRUE, TRUE>>)
      [] chars = "(]" -> Ok(<<FALSE, TRUE>>)
      [] chars = "[)" -> Ok(<<TRUE, FALSE>>)
      [] chars = "()" -> Ok(<<FALSE, FALSE>>)
      [] OTHER        -> Raise("ValueError")

Has(d, keys) == keys \subseteq DOMAIN d

from_dict(d) ==
    IF ~Has(d, {"type"}) THEN Raise("KeyError")
    ELSE IF d.type = "interval" THEN
        IF ~Has(d, {"values", "bounds"}) THEN Raise("KeyError")
        ELSE LET b == bounds_from_string(d.bounds)
             IN  IF b.kind = "raise" THEN b
                 ELSE IF ~Has(d, {"order", "mono"}) THEN Raise("KeyError")
                 ELSE Interval(d.values, b.val, d.order, d.mono)
    ELSE IF d.type = "override" THEN
        IF ~Has(d, {"override", "order"}) THEN Raise("KeyError")
        ELSE Override(d.override, d.order)
    ELSE IF d.type = "missing" THEN
        IF ~Has(d, {"order"}) THEN Raise("KeyError")
        ELSE Missing(d.order)
    ELSE Raise("ValueError")

(* json.loads(s, object_hook=from_dict) on a document: the hook replaces   *)
(* every decoded object, innermost first; the first exception propagates.  *)
PyNone == [t |-> "None"]
PyNum(v) == [t |-> "num", v |-> v]
PyList(items) == [t |-> "list", items |-> items]
IsSelection(v) == "variant" \in DOMAIN v

json_loads(doc) ==
    CASE doc.k = "empty" -> Raise("JSONDecodeError")
      [] doc.k = "null"  -> Ok(PyNone)
      [] doc.k = "num"   -> Ok(PyNum(doc.v))
      [] doc.k = "obj"   -> from_dict(doc.d)
      [] doc.k = "arr"   ->
            LET hooked == [i \in DOMAIN doc.items |-> from_dict(doc.items[i])]
                failed == {i \in DOMAIN hooked : hooked[i].kind = "raise"}
                first  == CHOOSE i \in failed : \A j \in failed : i <= j
            IN  IF failed # {} THEN hooked[first]
                ELSE Ok(PyList([i \in DOMAIN hooked |-> hooked[i].val]))

from_json(doc) ==
    LET res == json_loads(doc)
    IN  IF res.kind = "raise" THEN res
        ELSE IF res.val = PyNone THEN Raise("IOError")
        ELSE res

---------------------------------------------------------------------------
(* The sort key and sorted(selections, key=lambda s: s.sort_value) *)

Selection_sort_value(self) ==
    IF self.variant = "Interval"
    THEN <<self.priority, self.order, self.values[1]>>
    ELSE <<self.priority, self.order, NegInf>>

sort_value(e) ==
    IF "selection" \in DOMAIN e
    THEN Selection_sort_value(e.selection)
    ELSE Selection_sort_value(e)

(* Python's tuple comparison: the first differing component decides. *)
KeyLess(a, b) ==
    \/ lt(a[1], b[1])
    \/ eq(a[1], b[1]) /\ lt(a[2], b[2])
    \/ eq(a[1], b[1]) /\ eq(a[2], b[2]) /\ lt(a[3], b[3])

(* List elements carry the identity of the Python object they stand for. *)
RECURSIVE insert(_, _)
insert(s, e) ==
    IF s = <<>> THEN <<e>>
    ELSE IF KeyLess(sort_value(e.ref), sort_value(Head(s).ref)) THEN <<e>> \o s
    ELSE <<Head(s)>> \o insert(Tail(s), e)

RECURSIVE sorted(_)
sorted(s) ==
    IF s = <<>> THEN <<>>
    ELSE insert(sorted(SubSeq(s, 1, Len(s) - 1)), s[Len(s)])

---------------------------------------------------------------------------
(* FittedSelection *)

FittedSelection(selection, value) == [selection |-> selection, value |-> value]

np_where(f, replace, r) ==
    [p \in DOMAIN r |-> IF f.data[p] THEN replace[p] ELSE r[p]]

transform_noguard(self, a, r) ==
    LET replace == [p \in DOMAIN a |-> IF self.value = None THEN a[p] ELSE self.value]
    IN  np_where(in_selection(self.selection, a), replace, r)

transform(self, a, r) ==
    LET replace == [p \in DOMAIN a |-> IF self.value = None THEN a[p] ELSE self.value]
        f       == array_and(in_selection(self.selection, a), np_isnan(r))
    IN  np_where(f, replace, r)

fitted(self) == self.value # None /\ ne(self.value, NaN)

---------------------------------------------------------------------------
(* Inputs *)

AllBounds == {<<l, r>> : l, r \in BOOLEAN}
Orders == 0..MaxOrder
ValidMono == {-1, 0, 1}
MonoArgs == {-1, 0, 1, 2}
ValidTokens == {"[]", "(]", "[)", "()"}
Tokens == ValidTokens \cup {"<>"}
ValidTypes == {"interval", "override", "missing"}
RecVals == {10, 20}

IntervalRecords ==
    {[type |-> "interval", values |-> <<a, b>>, bounds |-> t, order |-> o, mono |-> m] :
        a \in RecVals, b \in RecVals, t \in Tokens, o \in Orders, m \in MonoArgs}
OverrideRecords ==
    {[type |-> "override", override |-> c, order |-> o] : c \in {10, NaN}, o \in Orders}
MissingRecords == {[type |-> "missing", order |-> o] : o \in Orders}
OtherRecords == {[type |-> "identity", order |-> o] : o \in Orders}
PartialRecords == {[order |-> 0], [type |-> "interval", order |-> 0]}
Records ==
    IntervalRecords \cup OverrideRecords \cup MissingRecords \cup OtherRecords
        \cup PartialRecords

Arrays == UNION {[1..n -> Records] : n \in 0..MaxArr}
Docs ==
    {[k |-> "empty"], [k |-> "null"], [k |-> "num", v |-> 5]}
        \cup {[k |-> "obj", d |-> r] : r \in Records}
        \cup {[k |-> "arr", items |-> s] : s \in Arrays}

BVals == {1, 5, 10, 20, PosInf}
XVals == {0, 1, 3, 5, 10, 20, PosInf, NaN}

IntervalCalls(V, M) ==
    {[call |-> "Interval", values |-> <<a, b>>, bounds |-> bd, order |-> o, mono |-> m] :
        a \in V, b \in V, bd \in AllBounds, o \in Orders, m \in M}
FromDictCalls == {[call |-> "from_dict", d |-> r] : r \in Records}
FromJsonCalls == {[call |-> "from_json", doc |-> s] : s \in Docs}

PredInputs ==
    {c \in IntervalCalls(BVals, {0}) : c.order = 0}
        \cup {[call |-> "Override", override |-> c, order |-> 0] : c \in Floats}
        \cup {[call |-> "Missing", order |-> 0], [call |-> "Identity", order |-> 0]}
        \cup FromDictCalls
MonoInputs == IntervalCalls(RecVals, MonoArgs)
ParseInputs == FromDictCalls \cup FromJsonCalls

---------------------------------------------------------------------------
(* Constructing calls, the mono setter and in_selection *)

Built(outcome) ==
    /\ pc = "new"
    /\ obj' = outcome
    /\ pc' = "built"
    /\ UNCHANGED <<inp, x, mask, result, fsel, hist>>

NewInterval ==
    /\ inp.call = "Interval"
    /\ Built(Interval(inp.values, inp.bounds, inp.order, inp.mono))

NewOverride ==
    /\ inp.call = "Override"
    /\ Built(Override(inp.override, inp.order))

NewMissing ==
    /\ inp.call = "Missing"
    /\ Built(Missing(inp.order))

NewIdentity ==
    /\ inp.call = "Identity"
    /\ Built(Identity(inp.order))

FromDict ==
    /\ inp.call = "from_dict"
    /\ Built(from_dict(inp.d))

FromJson ==
    /\ inp.call = "from_json"
    /\ Built(from_json(inp.doc))

SetMono ==
    /\ pc = "built"
    /\ obj.kind = "ok"
    /\ obj.val.variant = "Interval"
    /\ \E v \in MonoArgs :
         LET r == mono_setter(obj.val, v)
         IN  /\ obj' = IF r.kind = "raise" THEN obj ELSE r
             /\ hist' = [op |-> "set_mono", arg |-> v, before |-> obj.val.mono,
                         raised |-> IF r.kind = "raise" THEN r.exc ELSE "none"]
    /\ UNCHANGED <<pc, inp, x, mask, result, fsel>>

InSelection ==
    /\ pc = "built"
    /\ obj.kind = "ok"
    /\ \E a \in Buffers(XVals) :
         /\ x' = a
         /\ mask' = in_selection(obj.val, a)
    /\ pc' = "tested"
    /\ UNCHANGED <<inp, obj, result, fsel, hist>>

InitWith(inputs) ==
    /\ pc = "new"
    /\ inp \in inputs
    /\ obj = NotCalled
    /\ x = Idle
    /\ mask = Idle
    /\ result = Idle
    /\ fsel = Idle
    /\ hist = [op |-> "none"]

InitPred == InitWith(PredInputs)
NextPred ==
    \/ NewInterval
    \/ NewOverride
    \/ NewMissing
    \/ NewIdentity
    \/ FromDict
    \/ InSelection
SpecPred == InitPred /\ [][NextPred]_vars

InitMono == InitWith(MonoInputs)
NextMono ==
    \/ NewInterval
    \/ SetMono
SpecMono == InitMono /\ [][NextMono]_vars

InitParse == InitWith(ParseInputs)
NextParse ==
    \/ FromDict
    \/ FromJson
SpecParse == InitParse /\ [][NextParse]_vars

---------------------------------------------------------------------------
(* Properties of the predicates (SpecPred) *)

Tested(variant) == pc = "tested" /\ obj.val.variant = variant
Min(a, b) == IF a <= b THEN a ELSE b
Max(a, b) == IF a <= b THEN b ELSE a

\* C2: for each of the four (left-closed, right-closed) pairs and every non-NaN
\* value v, Interval.in_selection is true at v exactly when v passes the low-bound
\* comparison (>= if left-closed, else >) and the high-bound comparison (<= if
\* right-closed, else <); an endpoint is matched exactly when its side is closed.
C2_IntervalMembership ==
    Tested("Interval") =>
        \A p \in DOMAIN x :
            x[p] # NaN =>
                LET v  == x[p]
                    lo == obj.val.values[1]
                    hi == obj.val.values[2]
                    lc == obj.val.bounds[1]
                    rc == obj.val.bounds[2]
                IN  mask.data[p] <=>
                        /\ IF lc THEN v >= lo ELSE v > lo
                        /\ IF rc THEN v <= hi ELSE v < hi

C2_Witness ==
    /\ Tested("Interval")
    /\ obj.val.values = <<1, 5>>
    /\ obj.val.bounds = <<TRUE, FALSE>>
    /\ x = <<1, 5>>
    /\ mask.data = <<TRUE, FALSE>>

\* C3: Interval.in_selection and Override.in_selection (NaN constant included)
\* are false wherever the input is NaN; Missing.in_selection is true exactly
\* where the input is NaN.
C3_NaNHandling ==
    pc = "tested" =>
        \A p \in DOMAIN x :
            /\ obj.val.variant \in {"Interval", "Override"} /\ x[p] = NaN
                    => ~mask.data[p]
            /\ obj.val.variant = "Missing" => (mask.data[p] <=> x[p] = NaN)

C3_Witness ==
    /\ Tested("Missing")
    /\ x = <<NaN, 3>>
    /\ mask.data = <<TRUE, FALSE>>

C3_WitnessOverrideNaN ==
    /\ Tested("Override")
    /\ obj.val.override = NaN
    /\ x = <<NaN>>
    /\ mask.data = <<FALSE>>

\* C9: whichever order the two bound values are given in, to the Interval
\* constructor or in a from_dict "interval" record, the Interval stores them
\* ascending; with both sides closed its in_selection matches both bounds, so
\* the record with values [20,10] and bounds "[]" stores (10,20) and matches 10
\* and 20.
C9_BoundsAscending ==
    (pc # "new" /\ obj.kind = "ok" /\ obj.val.variant = "Interval") =>
        LET given == IF inp.call = "from_dict" THEN inp.d.values ELSE inp.values
            lo    == Min(given[1], given[2])
            hi    == Max(given[1], given[2])
        IN  /\ obj.val.values = <<lo, hi>>
            /\ obj.val.values[1] <= obj.val.values[2]
            /\ (pc = "tested" /\ obj.val.bounds = <<TRUE, TRUE>>) =>
                    \A p \in DOMAIN x : x[p] \in {lo, hi} => mask.data[p]

C9_Witness ==
    /\ Tested("Interval")
    /\ inp.call = "from_dict"
    /\ inp.d \in IntervalRecords
    /\ inp.d.values = <<20, 10>>
    /\ inp.d.bounds = "[]"
    /\ obj.val.values = <<10, 20>>
    /\ x = <<10, 20>>
    /\ mask.data = <<TRUE, TRUE>>

---------------------------------------------------------------------------
(* Properties of the monotonicity field (SpecMono) *)

\* C8: the monotonicity stored in an Interval is always one of -1, 0, 1:
\* constructing with any other mono raises and yields no object, assigning any
\* other value raises and leaves the stored monotonicity as it was.
C8_MonoValid ==
    /\ obj.kind = "ok" => obj.val.mono \in ValidMono
    /\ (pc = "built" /\ inp.mono \notin ValidMono) => obj = Raise("ValueError")
    /\ (hist.op = "set_mono" /\ hist.arg \notin ValidMono) =>
            /\ hist.raised = "ValueError"
            /\ obj.val.mono = hist.before
    /\ (hist.op = "set_mono" /\ hist.arg \in ValidMono) => obj.val.mono = hist.arg

C8_Witness ==
    /\ hist.op = "set_mono"
    /\ hist.arg = 2
    /\ hist.before = -1
    /\ hist.raised = "ValueError"
    /\ obj.val.mono = -1

---------------------------------------------------------------------------
(* Properties of the deserializer (SpecParse) *)

BadRecord(d) ==
    \/ "bounds" \in DOMAIN d /\ d.bounds \notin ValidTokens
    \/ "mono" \in DOMAIN d /\ d.mono \notin ValidMono
    \/ "type" \in DOMAIN d /\ d.type \notin ValidTypes

VariantOf(type) ==
    CASE type = "interval" -> "Interval"
      [] type = "override" -> "Override"
      [] type = "missing"  -> "Missing"

\* C5: Selection.from_dict raises ValueError and returns no Selection when the
\* record's bounds token is not one of "[]", "(]", "[)", "()", or its mono is
\* outside {-1,0,1}, or its type is not "interval", "override" or "missing"; for
\* every valid record it returns the variant named by type.
C5_FromDictValidates ==
    (pc = "built" /\ inp.call = "from_dict") =>
        LET d == inp.d
        IN  /\ BadRecord(d) => obj = Raise("ValueError")
            /\ (d \notin PartialRecords /\ ~BadRecord(d)) =>
                    /\ obj.kind = "ok"
                    /\ obj.val.variant = VariantOf(d.type)

C5_Witness ==
    /\ pc = "built"
    /\ inp.call = "from_dict"
    /\ inp.d \in IntervalRecords
    /\ inp.d.bounds = "<>"
    /\ inp.d.mono = 0
    /\ obj = Raise("ValueError")

HoldsNoRecord(doc) ==
    \/ doc.k \in {"empty", "null", "num"}
    \/ doc.k = "arr" /\ doc.items = <<>>

\* C6: Selection.from_json raises IOError for every document whose parsing
\* yields no Selection, the empty document and the null document included; it
\* never returns a value that is not a Selection and never raises another kind
\* of error for such a document.  Stated here for the documents that hold no
\* record at all (empty, null, a number, an empty array), where no validation
\* error of from_dict can be involved.
C6_FromJsonIOError ==
    (pc = "built" /\ inp.call = "from_json" /\ HoldsNoRecord(inp.doc)) =>
        obj = Raise("IOError")

---------------------------------------------------------------------------
(* Sorting a list of selections or fitted selections (SpecSort) *)

SortCalls ==
    {[call |-> "Interval", values |-> v, bounds |-> <<FALSE, FALSE>>, order |-> o,
      mono |-> 0] : v \in {<<0, 5>>, <<3, 10>>}, o \in Orders}
        \cup {[call |-> c, order |-> o] : c \in {"Missing", "Identity"}, o \in Orders}
        \cup {[call |-> "Override", override |-> 10, order |-> o] : o \in Orders}
        \cup {[call |-> "Override", override |-> 10, order |-> 2],
              [call |-> "Identity", order |-> 3]}
SortInputs ==
    {[call |-> "sorted", calls |-> s, wrap |-> w] :
        s \in UNION {[1..n -> SortCalls] : n \in 1..MaxSort}, w \in BOOLEAN}

Construct(c) ==
    CASE c.call = "Interval" -> Interval(c.values, c.bounds, c.order, c.mono)
      [] c.call = "Override" -> Override(c.override, c.order)
      [] c.call = "Missing"  -> Missing(c.order)
      [] c.call = "Identity" -> Identity(c.order)

BuildList ==
    /\ inp.call = "sorted"
    /\ Built(Ok([i \in DOMAIN inp.calls |->
                    [id  |-> i,
                     ref |-> IF inp.wrap
                             THEN FittedSelection(Construct(inp.calls[i]).val, None)
                             ELSE Construct(inp.calls[i]).val]]))

Sort ==
    /\ pc = "built"
    /\ inp.call = "sorted"
    /\ result' = sorted(obj.val)
    /\ pc' = "sorted"
    /\ UNCHANGED <<inp, obj, x, mask, fsel, hist>>

InitSort == InitWith(SortInputs)
NextSort ==
    \/ BuildList
    \/ Sort
SpecSort == InitSort /\ [][NextSort]_vars

---------------------------------------------------------------------------
(* One FittedSelection: fitted, and transform applied twice (SpecTransform) *)

FoldSelections ==
    {Interval(<<0, 5>>, <<TRUE, FALSE>>, 0, 0).val,
     Interval(<<3, 10>>, <<TRUE, TRUE>>, 1, 0).val,
     Override(10, 1).val,
     Missing(2).val,
     Identity(0).val}
Fills == {None, NaN, -1, 0}
FittedPool == {FittedSelection(sl, v) : sl \in FoldSelections, v \in Fills}
FoldX == {3, 10, NaN}
ResultVals == {NaN, 7, 0}

InitTransform ==
    /\ pc = "new"
    /\ inp = Idle
    /\ obj = NotCalled
    /\ fsel \in FittedPool
    /\ \E n \in 1..MaxLen :
         /\ x \in [1..n -> FoldX]
         /\ result \in [1..n -> ResultVals]
    /\ mask = Idle
    /\ hist = [r0 |-> result, before |-> result]

ReadFitted ==
    /\ pc = "new"
    /\ obj = NotCalled
    /\ obj' = Ok(fitted(fsel))
    /\ UNCHANGED <<pc, inp, x, mask, result, fsel, hist>>

Transform ==
    /\ pc \in {"new", "once"}
    /\ result' = transform(fsel, x, result)
    /\ hist' = [hist EXCEPT !.before = result]
    /\ pc' = IF pc = "new" THEN "once" ELSE "twice"
    /\ UNCHANGED <<inp, obj, x, mask, fsel>>

NextTransform ==
    \/ ReadFitted
    \/ Transform
SpecTransform == InitTransform /\ [][NextTransform]_vars

---------------------------------------------------------------------------
(* The fold of transform over fitted selections in sort-key order (SpecFold) *)

Scenario == <<1, 3, 10, NaN, 7>>
Unset(a) == [p \in DOMAIN a |-> NaN]

InitFold ==
    /\ pc = "fold"
    /\ inp = Idle
    /\ obj = NotCalled
    /\ x \in Buffers(FoldX) \cup {Scenario}
    /\ result = Unset(x)
    /\ mask = Idle
    /\ fsel = Idle
    /\ hist = [matched  |-> [p \in DOMAIN x |-> FALSE],
               first    |-> Unset(x),
               firstSet |-> Unset(x),
               later    |-> [p \in DOMAIN x |-> FALSE]]

(* The next fitted selection of the sorted list: its key is not below the  *)
(* key of the one before it.                                               *)
FoldStep ==
    /\ pc = "fold"
    /\ \E fs \in FittedPool :
         /\ fsel # Idle => ~KeyLess(sort_value(fs), sort_value(fsel))
         /\ fsel' = fs
         /\ result' = transform(fs, x, result)
         /\ LET m    == in_selection(fs.selection, x).data
                fill == [p \in DOMAIN x |-> IF fs.value = None THEN x[p] ELSE fs.value]
            IN  hist' =
                  [matched  |-> [p \in DOMAIN x |-> hist.matched[p] \/ m[p]],
                   first    |-> [p \in DOMAIN x |->
                                   IF ~hist.matched[p] /\ m[p] THEN fill[p]
                                   ELSE hist.first[p]],
                   firstSet |-> [p \in DOMAIN x |->
                                   IF hist.firstSet[p] = NaN /\ m[p] THEN fill[p]
                                   ELSE hist.firstSet[p]],
                   later    |-> [p \in DOMAIN x |->
                                   hist.later[p] \/ (hist.firstSet[p] # NaN /\ m[p])]]
    /\ UNCHANGED <<pc, inp, obj, x, mask>>

NextFold ==
    \/ FoldStep
SpecFold == InitFold /\ [][NextFold]_vars

---------------------------------------------------------------------------
(* Properties of the ordering (SpecSort) *)

Priority(call) ==
    CASE call = "Interval" -> 0
      [] call = "Override" -> 1
      [] call = "Missing"  -> 2
      [] call = "Identity" -> 100

CallOf(e) == inp.calls[e.id]

InClaimedOrder(a, b) ==
    /\ Priority(a.call) <= Priority(b.call)
    /\ a.call = b.call => a.order <= b.order
    /\ (a.call = "Interval" /\ b.call = "Interval" /\ a.order = b.order) =>
            Min(a.values[1], a.values[2]) <= Min(b.values[1], b.values[2])

\* C4: sorting any collection of selections (or fitted selections) by
\* sort_value, whatever the input order, orders them by ascending variant
\* priority (Interval 0, Override 1, Missing 2, Identity 100), then by ascending
\* caller-supplied order within a variant, then by ascending low bound among
\* Intervals.
C4_SortedByPriorityOrderLow ==
    pc = "sorted" =>
        \A i, j \in DOMAIN result :
            i < j => InClaimedOrder(CallOf(result[i]), CallOf(result[j]))

\* The example of C4: every permutation of Missing(0), Interval([0,5],(),1),
\* Override(10,2), Identity(3) sorts to Interval, Override, Missing, Identity.
C4_ExampleSorted ==
    (/\ pc = "sorted"
     /\ Len(inp.calls) = 4
     /\ {inp.calls[i] : i \in 1..4} =
            {[call |-> "Missing", order |-> 0],
             [call |-> "Interval", values |-> <<0, 5>>, bounds |-> <<FALSE, FALSE>>,
              order |-> 1, mono |-> 0],
             [call |-> "Override", override |-> 10, order |-> 2],
             [call |-> "Identity", order |-> 3]})
        => [i \in 1..4 |-> CallOf(result[i]).call]
                = <<"Interval", "Override", "Missing", "Identity">>

---------------------------------------------------------------------------
(* Properties of FittedSelection (SpecTransform, SpecFold) *)

\* C7: FittedSelection.fitted is true exactly when an explicit fill value is
\* configured: false for None, false for the NaN "not yet fit" sentinel, true
\* for every other number.
C7_FittedIffExplicitFill ==
    (pc = "new" /\ obj.kind = "ok") =>
        (obj.val <=> fsel.value \notin {None, NaN})

\* C10: transform leaves the result as it was at every position that was
\* already set (not NaN) and at every position where the predicate is false,
\* and applying it a second time to its own output changes nothing.
C10_TransformIdempotent ==
    /\ pc \in {"once", "twice"} =>
          \A p \in DOMAIN x :
              (hist.before[p] # NaN \/ ~in_selection(fsel.selection, x).data[p])
                  => result[p] = hist.before[p]
    /\ pc = "twice" => result = hist.before

C10_Witness ==
    /\ pc = "twice"
    /\ x = <<3, 3>>
    /\ fsel.selection.variant = "Interval"
    /\ fsel.value = 0
    /\ hist.r0 = <<7, NaN>>
    /\ result = <<7, 0>>

\* C1 as claimed: in the fold from an all-NaN result, once a fitted selection's
\* predicate has matched a position no later one changes it, so each position
\* ends with the fill of the first selection in the order that matches it.
C1_FirstMatchWins ==
    \A p \in DOMAIN x : hist.matched[p] => result[p] = hist.first[p]

\* C1 as amended: in the fold from an all-NaN result, each position holds the
\* fill of the first selection in the order that matched it with a fill that is
\* not NaN there (its constant, or the input value when the fill is None), and
\* NaN when there was none; a position so resolved is never changed again.
C1_FirstResolvingMatchWins ==
    \A p \in DOMAIN x : result[p] = hist.firstSet[p]

C1_Witness ==
    /\ x = Scenario
    /\ fsel = FittedSelection(Identity(0).val, 0)
    /\ hist.later = <<TRUE, TRUE, TRUE, TRUE, FALSE>>
    /\ result = <<1, 3, -1, 0, 0>>

====
